---- MODULE Spec2Model ----
(***************************************************************************)
(* A model of fkupdate.py: the decision procedure attempt_update, the      *)
(* action applier update and the batch coordinator maintain_batch, run     *)
(* against a working directory, a cache directory and a remote site.       *)
(*                                                                         *)
(* A file name is a base filename; basedir/f and cachedir/f are the two    *)
(* paths a name stands for.  An entry (f, url) of name_url is written f:   *)
(* the resource behind its url is remote[f].  An optional value (Python's  *)
(* Optional) is None or Some(x); a path that holds no file maps to None.   *)
(***************************************************************************)
EXTENDS Integers, Sequences, FiniteSets, TLC

\* ---------------------------------------------------------------- bounds
NumContents == 2
MaxEntries == 2

Names == {"a", "b"}
Contents == 1..NumContents

\* ------------------------------------------------------- optional values
None == <<>>
Some(x) == <<x>>
Get(o) == o[1]

\* ------------------------------------------------- int return codes
UPDATED == 0
NO_REMOTE_CHANGE == 1
LOCAL_CHANGE_REMOTE_CHANGE == 2
NO_LOCAL_NO_REMOTE == 4
HAS_LOCAL_NO_REMOTE == 8

RetCodes ==
    {UPDATED, NO_REMOTE_CHANGE, LOCAL_CHANGE_REMOTE_CHANGE,
     NO_LOCAL_NO_REMOTE, HAS_LOCAL_NO_REMOTE}

\* ---------------------------------------------------------------- hashing
\* hashlib's hexdigest of a content: a digest is not a content, and two
\* contents have two digests.
HexDigest(c) == NumContents + 1 + c

\* Content 0 is an earlier version that no file and no site holds any more;
\* its digest can still be on record in name2hash.
Digests == {HexDigest(c) : c \in 0..NumContents}
OptFile == {None} \cup {Some(c) : c \in Contents}
OptDigest == {None} \cup {Some(d) : d \in Digests}
OptPath == {None} \cup {Some(f) : f \in Names}

\* hash_of_file(dir/f): defined when the file exists (open() raises
\* FileNotFoundError otherwise, see HashRaises).
hash_of_file(dir, f) == HexDigest(Get(dir[f]))

HashRaises(dir, f) == dir[f] = None

VARIABLES
    basedir,            \* working directory: name -> file content or None
    cachedir,           \* cache directory: name -> file content or None
    remote,             \* the site: name -> served content or None (HTTP error)
    pc,                 \* position of the running maintain_batch call
    name_url,           \* argument: the entries, in order
    name2hash,          \* argument: name -> hash once downloaded, or None
    latest_download,    \* download's result for the current entry
    decision,           \* attempt_update's result inside the current update
    vals,               \* update's results so far
    retcodes,           \* returned list of return codes
    name2hash_updates,  \* returned dictionary of new hashes
    exc,                \* the exception the call raised, or None
    \* history of the running call, read by the properties only
    called,             \* the two directories when the call was made
    fetches,            \* the names download was called for, in order
    reads,              \* the paths attempt_update hashed in the current update
    pre,                \* the two directories when the current update was entered
    log,                \* per finished update: its entry and what it was given
    prefetch,           \* the cache directory when download was last called
    \* the command line interface (fmgr.py) and what it keeps between runs
    cfg,                \* .name_url.json: the entries
    hist,               \* .downloads.json: name -> hash, or None (no file yet)
    lastrun             \* history: per name, how the last run left it

vars ==
    <<basedir, cachedir, remote, pc, name_url, name2hash, latest_download,
      decision, vals, retcodes, name2hash_updates, exc, called, fetches,
      reads, pre, log, prefetch, cfg, hist, lastrun>>

\* What only the command line interface changes.
cli == <<cfg, hist, lastrun>>

EmptyDict == [f \in {} |-> None]

Dicts(V) == UNION {[D -> V] : D \in SUBSET Names}

EntryLists == UNION {[1..k -> Names] : k \in 0..MaxEntries}

\* What an interrupted transfer leaves at the destination: the file was
\* opened for writing and not all of the resource was copied.
Partial == Some(NumContents + 1)

\* Mutant: the pipeline does not advance past the first entry.
Current_stuck == name_url[1]

\* The entry the call is working on.
Current == name_url[Len(vals) + 1]

TypeOK ==
    /\ basedir \in [Names -> OptFile]
    /\ cachedir \in [Names -> OptFile \cup {Partial}]
    /\ remote \in [Names -> OptFile]
    /\ pc \in {"idle", "fetch", "update", "apply", "collect", "done", "raised"}
    /\ name_url \in EntryLists
    /\ name2hash \in Dicts(OptDigest)
    /\ latest_download \in OptPath
    /\ vals \in Seq(RetCodes \X OptDigest)
    /\ Len(vals) <= Len(name_url)
    /\ Len(log) = Len(vals)
    /\ retcodes \in Seq(RetCodes)
    /\ name2hash_updates \in Dicts(Digests)

\* ------------------------------------------------------- attempt_update
\* hash_of_file raises inside attempt_update: the download is gone, or the
\* local file is hashed (remote changed) and does not exist.
attempt_update_raises(localfile, orig_hash, latest_download_) ==
    /\ latest_download_ # None
    /\ \/ HashRaises(cachedir, Get(latest_download_))
       \/ /\ orig_hash # None
          /\ orig_hash # Some(hash_of_file(cachedir, Get(latest_download_)))
          /\ HashRaises(basedir, localfile)

\* Mutant: the local file is compared before the download.
attempt_update_local_first(localfile, orig_hash, latest_download_) ==
    IF orig_hash = None /\ latest_download_ = None
    THEN <<NO_LOCAL_NO_REMOTE, None>>
    ELSE IF latest_download_ = None
    THEN <<HAS_LOCAL_NO_REMOTE, None>>
    ELSE LET latest_hash == hash_of_file(cachedir, Get(latest_download_)) IN
         IF orig_hash = None
         THEN <<UPDATED, Some(latest_hash)>>
         ELSE IF /\ ~HashRaises(basedir, localfile)
                 /\ orig_hash = Some(hash_of_file(basedir, localfile))
         THEN <<UPDATED, Some(latest_hash)>>
         ELSE IF orig_hash = Some(latest_hash)
         THEN <<NO_REMOTE_CHANGE, None>>
         ELSE <<LOCAL_CHANGE_REMOTE_CHANGE, None>>

\* Mutant: a changed remote is taken without hashing the local file.
attempt_update_no_local_check(localfile, orig_hash, latest_download_) ==
    IF orig_hash = None /\ latest_download_ = None
    THEN <<NO_LOCAL_NO_REMOTE, None>>
    ELSE IF latest_download_ = None
    THEN <<HAS_LOCAL_NO_REMOTE, None>>
    ELSE LET latest_hash == hash_of_file(cachedir, Get(latest_download_)) IN
         IF orig_hash = None
         THEN <<UPDATED, Some(latest_hash)>>
         ELSE IF orig_hash = Some(latest_hash)
         THEN <<NO_REMOTE_CHANGE, None>>
         ELSE <<UPDATED, Some(latest_hash)>>

\* Mutant: the hash of the download is returned on a conflict too.
attempt_update_hash_on_conflict(localfile, orig_hash, latest_download_) ==
    IF orig_hash = None /\ latest_download_ = None
    THEN <<NO_LOCAL_NO_REMOTE, None>>
    ELSE IF latest_download_ = None
    THEN <<HAS_LOCAL_NO_REMOTE, None>>
    ELSE LET latest_hash == hash_of_file(cachedir, Get(latest_download_)) IN
         IF orig_hash = None
         THEN <<UPDATED, Some(latest_hash)>>
         ELSE IF orig_hash = Some(latest_hash)
         THEN <<NO_REMOTE_CHANGE, None>>
         ELSE IF orig_hash = Some(hash_of_file(basedir, localfile))
         THEN <<UPDATED, Some(latest_hash)>>
         ELSE <<LOCAL_CHANGE_REMOTE_CHANGE, Some(latest_hash)>>

\* Mutant: the hash of the download is returned with NO_REMOTE_CHANGE too.
attempt_update_hash_always(localfile, orig_hash, latest_download_) ==
    IF orig_hash = None /\ latest_download_ = None
    THEN <<NO_LOCAL_NO_REMOTE, None>>
    ELSE IF latest_download_ = None
    THEN <<HAS_LOCAL_NO_REMOTE, None>>
    ELSE LET latest_hash == hash_of_file(cachedir, Get(latest_download_)) IN
         IF orig_hash = None
         THEN <<UPDATED, Some(latest_hash)>>
         ELSE IF orig_hash = Some(latest_hash)
         THEN <<NO_REMOTE_CHANGE, Some(latest_hash)>>
         ELSE IF orig_hash = Some(hash_of_file(basedir, localfile))
         THEN <<UPDATED, Some(latest_hash)>>
         ELSE <<LOCAL_CHANGE_REMOTE_CHANGE, None>>

\* The (return code, new hash) of attempt_update, when it does not raise.
attempt_update(localfile, orig_hash, latest_download_) ==
    IF orig_hash = None /\ latest_download_ = None
    THEN <<NO_LOCAL_NO_REMOTE, None>>
    ELSE IF latest_download_ = None
    THEN <<HAS_LOCAL_NO_REMOTE, None>>
    ELSE LET latest_hash == hash_of_file(cachedir, Get(latest_download_)) IN
         IF orig_hash = None
         THEN <<UPDATED, Some(latest_hash)>>
         ELSE IF orig_hash = Some(latest_hash)
         THEN <<NO_REMOTE_CHANGE, None>>
         ELSE IF orig_hash = Some(hash_of_file(basedir, localfile))
         THEN <<UPDATED, Some(latest_hash)>>
         ELSE <<LOCAL_CHANGE_REMOTE_CHANGE, None>>

\* Mutant: the local file is hashed up front, whenever there is a download.
attempt_update_reads_eager(localfile, orig_hash, latest_download_) ==
    IF latest_download_ = None
    THEN {}
    ELSE {<<"cachedir", Get(latest_download_)>>, <<"basedir", localfile>>}

\* The paths attempt_update opens for hashing, as <<directory, name>>.
attempt_update_reads(localfile, orig_hash, latest_download_) ==
    IF latest_download_ = None
    THEN {}
    ELSE {<<"cachedir", Get(latest_download_)>>}
         \cup IF /\ orig_hash # None
                 /\ ~HashRaises(cachedir, Get(latest_download_))
                 /\ orig_hash # Some(hash_of_file(cachedir, Get(latest_download_)))
              THEN {<<"basedir", localfile>>}
              ELSE {}

\* ---------------------------------------------------------------- Init
Init ==
    /\ basedir = [f \in Names |-> None]
    /\ cachedir = [f \in Names |-> None]
    /\ remote = [f \in Names |-> None]
    /\ pc = "idle"
    /\ name_url = <<>>
    /\ name2hash = EmptyDict
    /\ latest_download = None
    /\ decision = None
    /\ vals = <<>>
    /\ retcodes = <<>>
    /\ name2hash_updates = EmptyDict
    /\ exc = None
    /\ called = None
    /\ fetches = <<>>
    /\ reads = {}
    /\ pre = None
    /\ log = <<>>
    /\ prefetch = None
    /\ cfg = <<>>
    /\ hist = None
    /\ lastrun = [f \in Names |-> None]

\* ------------------------------------------------------- maintain_batch
\* Mutant: only a dictionary longer than the list is refused.
length_mismatch_one_way(name_url_, name2hash_) ==
    Len(name_url_) < Cardinality(DOMAIN name2hash_)

\* len(name_url) != len(name2hash)
length_mismatch(name_url_, name2hash_) ==
    Len(name_url_) # Cardinality(DOMAIN name2hash_)

\* The call: the length check, then the (lazy) pipeline is set up.
maintain_batch(name_url_, name2hash_) ==
    /\ pc = "idle"
    /\ IF length_mismatch(name_url_, name2hash_)
       THEN /\ pc' = "raised"
            /\ exc' = <<"ValueError", Len(name_url_),
                        Cardinality(DOMAIN name2hash_)>>
            /\ UNCHANGED <<name_url, name2hash>>
       ELSE /\ pc' = IF Len(name_url_) = 0 THEN "collect" ELSE "fetch"
            /\ name_url' = name_url_
            /\ name2hash' = name2hash_
            /\ exc' = None
    /\ called' = [basedir |-> basedir, cachedir |-> cachedir]
    /\ UNCHANGED <<basedir, cachedir, remote, latest_download, decision,
                   vals, retcodes, name2hash_updates, fetches, reads, pre,
                   log, prefetch, cli>>

\* Mutant: the file is opened for writing before the url is opened.
download_opens_first(f) ==
    /\ fetches' = Append(fetches, f)
    /\ prefetch' = cachedir
    /\ IF remote[f] = None
       THEN /\ latest_download' = None
            /\ cachedir' = [cachedir EXCEPT ![f] = Partial]
       ELSE /\ cachedir' = [cachedir EXCEPT ![f] = remote[f]]
            /\ latest_download' = Some(f)

\* Mutant: every download goes through one path, that of the first entry.
download_shared_path(f) ==
    /\ fetches' = Append(fetches, f)
    /\ prefetch' = cachedir
    /\ IF remote[f] = None
       THEN /\ latest_download' = None
            /\ UNCHANGED cachedir
       ELSE /\ cachedir' = [cachedir EXCEPT ![name_url[1]] = remote[f]]
            /\ latest_download' = Some(name_url[1])

\* download(cachedir/f, url of f): the resource is written to the cache
\* and its path returned, or None is returned on HTTPError / URLError.
download(f) ==
    /\ fetches' = Append(fetches, f)
    /\ prefetch' = cachedir
    /\ IF remote[f] = None
       THEN /\ latest_download' = None
            /\ UNCHANGED cachedir
       ELSE /\ cachedir' = [cachedir EXCEPT ![f] = remote[f]]
            /\ latest_download' = Some(f)

\* One pull on the argument pipeline: zip takes the next (localfile, hash),
\* which looks name2hash[f] up, and then the next download.
next_args ==
    /\ pc = "fetch"
    /\ IF Current \notin DOMAIN name2hash
       THEN /\ pc' = "raised"
            /\ exc' = <<"KeyError", Current>>
            /\ UNCHANGED <<cachedir, latest_download, fetches, prefetch>>
       ELSE /\ download(Current)
            /\ pc' = "update"
            /\ UNCHANGED exc
    /\ UNCHANGED <<basedir, remote, name_url, name2hash, decision, vals,
                   retcodes, name2hash_updates, called, reads, pre, log,
                   cli>>

\* update enters and calls attempt_update on (basedir/f, name2hash[f],
\* latest download).
update_attempt ==
    /\ pc = "update"
    /\ LET f == Current
           h == name2hash[f]
       IN /\ pre' = [basedir |-> basedir, cachedir |-> cachedir]
          /\ reads' = attempt_update_reads(f, h, latest_download)
          /\ IF attempt_update_raises(f, h, latest_download)
             THEN /\ pc' = "raised"
                  /\ exc' = <<"FileNotFoundError", f>>
                  /\ UNCHANGED decision
             ELSE /\ pc' = "apply"
                  /\ decision' = attempt_update(f, h, latest_download)
                  /\ UNCHANGED exc
    /\ UNCHANGED <<basedir, cachedir, remote, name_url, name2hash,
                   latest_download, vals, retcodes, name2hash_updates,
                   called, fetches, log, prefetch, cli>>

\* Mutant: the download is copied over the local file, not moved.
update_files_copy(localfile, ret, latest_download_) ==
    IF ret = UPDATED
    THEN /\ basedir' = [basedir EXCEPT
                          ![localfile] = cachedir[Get(latest_download_)]]
         /\ UNCHANGED cachedir
    ELSE IF ret = NO_REMOTE_CHANGE
    THEN /\ cachedir' = [cachedir EXCEPT ![Get(latest_download_)] = None]
         /\ UNCHANGED basedir
    ELSE UNCHANGED <<basedir, cachedir>>

\* Mutant: an unchanged download is moved over the local file as well.
update_files_replace_unchanged(localfile, ret, latest_download_) ==
    IF ret \in {UPDATED, NO_REMOTE_CHANGE}
    THEN /\ basedir' = [basedir EXCEPT
                          ![localfile] = cachedir[Get(latest_download_)]]
         /\ cachedir' = [cachedir EXCEPT ![Get(latest_download_)] = None]
    ELSE UNCHANGED <<basedir, cachedir>>

\* Mutant: every download that is not taken is removed.
update_files_remove_untaken(localfile, ret, latest_download_) ==
    IF ret = UPDATED
    THEN /\ basedir' = [basedir EXCEPT
                          ![localfile] = cachedir[Get(latest_download_)]]
         /\ cachedir' = [cachedir EXCEPT ![Get(latest_download_)] = None]
    ELSE IF latest_download_ # None
    THEN /\ cachedir' = [cachedir EXCEPT ![Get(latest_download_)] = None]
         /\ UNCHANGED basedir
    ELSE UNCHANGED <<basedir, cachedir>>

\* update's file system operations: os.replace(latest_download, localfile)
\* on UPDATED, os.remove(latest_download) on NO_REMOTE_CHANGE.
update_files(localfile, ret, latest_download_) ==
    IF ret = UPDATED
    THEN /\ basedir' = [basedir EXCEPT
                          ![localfile] = cachedir[Get(latest_download_)]]
         /\ cachedir' = [cachedir EXCEPT ![Get(latest_download_)] = None]
    ELSE IF ret = NO_REMOTE_CHANGE
    THEN /\ cachedir' = [cachedir EXCEPT ![Get(latest_download_)] = None]
         /\ UNCHANGED basedir
    ELSE UNCHANGED <<basedir, cachedir>>

\* The rest of update after attempt_update returned; its result joins vals.
update_apply ==
    /\ pc = "apply"
    /\ update_files(Current, decision[1], latest_download)
    /\ vals' = Append(vals, decision)
    /\ log' = Append(log, [name |-> Current,
                           orig_hash |-> name2hash[Current],
                           localfile |-> pre.basedir[Current],
                           staged |-> IF latest_download = None
                                      THEN None
                                      ELSE pre.cachedir[Get(latest_download)]])
    /\ pc' = IF Len(vals) + 1 = Len(name_url) THEN "collect" ELSE "fetch"
    /\ UNCHANGED <<remote, name_url, name2hash, latest_download, decision,
                   retcodes, name2hash_updates, exc, called, fetches, reads,
                   pre, prefetch, cli>>

\* Mutant: the return codes come out in reverse.
retcodes_of_reversed(vals_) ==
    [k \in 1..Len(vals_) |-> vals_[Len(vals_) + 1 - k][1]]

\* list(r for r, _ in vals)
retcodes_of(vals_) ==
    [k \in 1..Len(vals_) |-> vals_[k][1]]

\* The positions of vals that carry a new hash.
WithHash(vals_) == {k \in 1..Len(vals_) : vals_[k][2] # None}

\* Mutant: None is filtered out before the hashes are zipped with the names.
name2hash_updates_of_filter_first(name_url_, vals_) ==
    LET n == Cardinality(WithHash(vals_))
        nth(i) == CHOOSE k \in WithHash(vals_) :
                     Cardinality({j \in WithHash(vals_) : j <= k}) = i
        last(f) == CHOOSE i \in 1..n :
                     /\ name_url_[i] = f
                     /\ \A j \in 1..n : name_url_[j] = f => j <= i
    IN [f \in {name_url_[i] : i \in 1..n} |-> Get(vals_[nth(last(f))][2])]

\* dict((f, h) for (f, _), h in zip(name_url, newhashes) if h is not None):
\* a later pair of the same name replaces an earlier one.
name2hash_updates_of(name_url_, vals_) ==
    LET last(f) == CHOOSE k \in WithHash(vals_) :
                     /\ name_url_[k] = f
                     /\ \A j \in WithHash(vals_) : name_url_[j] = f => j <= k
    IN [f \in {name_url_[k] : k \in WithHash(vals_)} |->
          Get(vals_[last(f)][2])]

\* The return values are collected from vals.
collect ==
    /\ pc = "collect"
    /\ Len(vals) = Len(name_url)
    /\ retcodes' = retcodes_of(vals)
    /\ name2hash_updates' = name2hash_updates_of(name_url, vals)
    /\ pc' = "done"
    /\ UNCHANGED <<basedir, cachedir, remote, name_url, name2hash,
                   latest_download, decision, vals, exc, called, fetches,
                   reads, pre, log, prefetch, cli>>

\* The call is over (returned or raised); the files stay.
Return ==
    /\ pc \in {"done", "raised"}
    /\ pc' = "idle"
    /\ name_url' = <<>>
    /\ name2hash' = EmptyDict
    /\ latest_download' = None
    /\ decision' = None
    /\ vals' = <<>>
    /\ retcodes' = <<>>
    /\ name2hash_updates' = EmptyDict
    /\ exc' = None
    /\ called' = None
    /\ fetches' = <<>>
    /\ reads' = {}
    /\ pre' = None
    /\ log' = <<>>
    /\ prefetch' = None
    /\ UNCHANGED <<basedir, cachedir, remote, cli>>

\* ------------------------------------------------------------ environment
\* Between calls the user edits, creates or deletes a local file.
LocalEdit(f, x) ==
    /\ pc = "idle"
    /\ x # basedir[f]
    /\ basedir' = [basedir EXCEPT ![f] = x]
    /\ lastrun' = [lastrun EXCEPT
                    ![f] = IF @ # None /\ @[1] = LOCAL_CHANGE_REMOTE_CHANGE
                           THEN <<@[1], @[2], FALSE>>
                           ELSE None]
    /\ UNCHANGED <<cachedir, remote, pc, name_url, name2hash,
                   latest_download, decision, vals, retcodes,
                   name2hash_updates, exc, called, fetches, reads, pre, log,
                   prefetch, cfg, hist>>

\* Between calls the site changes what it serves, or stops serving it.
RemoteChange(f, x) ==
    /\ pc = "idle"
    /\ x # remote[f]
    /\ remote' = [remote EXCEPT ![f] = x]
    /\ lastrun' = [lastrun EXCEPT ![f] = None]
    /\ UNCHANGED <<basedir, cachedir, pc, name_url, name2hash,
                   latest_download, decision, vals, retcodes,
                   name2hash_updates, exc, called, fetches, reads, pre, log,
                   prefetch, cfg, hist>>

\* A call is made with any entries and any dictionary.
Call ==
    /\ pc = "idle"
    /\ \E nu \in EntryLists, nh \in Dicts(OptDigest) : maintain_batch(nu, nh)

Environment ==
    /\ pc = "idle"
    /\ \E f \in Names, x \in OptFile : LocalEdit(f, x) \/ RemoteChange(f, x)

Next ==
    \/ Call
    \/ next_args
    \/ update_attempt
    \/ update_apply
    \/ collect
    \/ Return
    \/ Environment

Spec == Init /\ [][Next]_vars

\* ==================================================================
\* The command line interface: runs of fmgr.py in one directory
\* ==================================================================
\* The names of a list of entries.
NamesOf(name_url_) == {name_url_[i] : i \in 1..Len(name_url_)}

\* name2hash as fmgr.py loads it: .downloads.json, or None for every name
\* of .name_url.json when there is no such file.
LoadedHist == IF hist = None THEN [f \in NamesOf(cfg) |-> None] ELSE hist

\* Mutant: the updates are not merged.
merged_hist_keeps_old(name2hash_, updates_) == name2hash_

\* Mutant: the updates replace the dictionary.
merged_hist_replace(name2hash_, updates_) ==
    [f \in DOMAIN updates_ |-> Some(updates_[f])]

\* name2hash.update(u)
merged_hist(name2hash_, updates_) ==
    [f \in DOMAIN name2hash_ \cup DOMAIN updates_ |->
       IF f \in DOMAIN updates_ THEN Some(updates_[f]) ELSE name2hash_[f]]

\* A directory with a .name_url.json, no .downloads.json and no files.
InitRuns ==
    /\ basedir = [f \in Names |-> None]
    /\ cachedir = [f \in Names |-> None]
    /\ remote = [f \in Names |-> None]
    /\ pc = "idle"
    /\ name_url = <<>>
    /\ name2hash = EmptyDict
    /\ latest_download = None
    /\ decision = None
    /\ vals = <<>>
    /\ retcodes = <<>>
    /\ name2hash_updates = EmptyDict
    /\ exc = None
    /\ called = None
    /\ fetches = <<>>
    /\ reads = {}
    /\ pre = None
    /\ log = <<>>
    /\ prefetch = None
    /\ cfg \in EntryLists
    /\ hist = None
    /\ lastrun = [f \in Names |-> None]

\* fmgr.py is run: it calls maintain_batch on the two loaded files.
fmgr_main == maintain_batch(cfg, LoadedHist)

\* The transfer breaks after urlopen returned: copyfileobj (or open) raises
\* an exception that is neither HTTPError nor URLError; download does not
\* catch it and the destination is left partly written.
download_interrupted ==
    /\ pc = "fetch"
    /\ Current \in DOMAIN name2hash
    /\ remote[Current] # None
    /\ fetches' = Append(fetches, Current)
    /\ prefetch' = cachedir
    /\ cachedir' = [cachedir EXCEPT ![Current] = Partial]
    /\ pc' = "raised"
    /\ exc' = <<"ConnectionResetError", Current>>
    /\ UNCHANGED <<basedir, remote, name_url, name2hash, latest_download,
                   decision, vals, retcodes, name2hash_updates, called,
                   reads, pre, log, cli>>

\* os.replace or os.remove raises OSError (permissions, disk): update does
\* not catch it; the file operation has not happened.
update_files_fail ==
    /\ pc = "apply"
    /\ decision[1] \in {UPDATED, NO_REMOTE_CHANGE}
    /\ pc' = "raised"
    /\ exc' = <<"OSError", Current>>
    /\ UNCHANGED <<basedir, cachedir, remote, name_url, name2hash,
                   latest_download, decision, vals, retcodes,
                   name2hash_updates, called, fetches, reads, pre, log,
                   prefetch, cli>>

\* How the run that ends leaves name f, for as long as the site serves the
\* same for f: None if the run raised or had no entry f, else <<code of f,
\* hash the run was given for f, local file not edited since>>.  An edit
\* of the local file ends the record too, unless the code is
\* LOCAL_CHANGE_REMOTE_CHANGE.
LastRunOf(f) ==
    LET ks == {k \in 1..Len(log) : log[k].name = f} IN
    IF ks = {} \/ pc # "done"
    THEN None
    ELSE LET k == CHOOSE i \in ks : \A j \in ks : j <= i
         IN <<vals[k][1], log[k].orig_hash, TRUE>>

\* fmgr.py ends: after maintain_batch returned, the updates are merged into
\* name2hash and written to .downloads.json; after it raised, the traceback
\* ends the process and .downloads.json is as it was.
fmgr_exit ==
    /\ pc \in {"done", "raised"}
    /\ hist' = IF pc = "done"
               THEN merged_hist(name2hash, name2hash_updates)
               ELSE hist
    /\ lastrun' = [f \in Names |-> LastRunOf(f)]
    /\ pc' = "idle"
    /\ name_url' = <<>>
    /\ name2hash' = EmptyDict
    /\ latest_download' = None
    /\ decision' = None
    /\ vals' = <<>>
    /\ retcodes' = <<>>
    /\ name2hash_updates' = EmptyDict
    /\ exc' = None
    /\ called' = None
    /\ fetches' = <<>>
    /\ reads' = {}
    /\ pre' = None
    /\ log' = <<>>
    /\ prefetch' = None
    /\ UNCHANGED <<basedir, cachedir, remote, cfg>>

\* Between runs the user and the site change the files of the entries.
EnvironmentRuns ==
    /\ pc = "idle"
    /\ \E f \in NamesOf(cfg), x \in OptFile :
          LocalEdit(f, x) \/ RemoteChange(f, x)

NextRuns ==
    \/ fmgr_main
    \/ next_args
    \/ download_interrupted
    \/ update_attempt
    \/ update_apply
    \/ update_files_fail
    \/ collect
    \/ fmgr_exit
    \/ EnvironmentRuns

SpecRuns == InitRuns /\ [][NextRuns]_vars

\* ==================================================================
\* Properties
\* ==================================================================
\* The digest of an optional file: None for no file.
DigestOf(file) == IF file = None THEN None ELSE Some(HexDigest(Get(file)))

\* update has just returned for entry Len(vals).
JustUpdated == pc \in {"fetch", "collect"} /\ Len(vals) > 0

LastEntry == log[Len(log)]
LastVal == vals[Len(vals)]

\* The classification by precedence: prior digest, digest of the staged
\* download (None: no download), digest of the local file.
Classify(prior, R, L) ==
    IF prior = None /\ R = None THEN NO_LOCAL_NO_REMOTE
    ELSE IF R = None THEN HAS_LOCAL_NO_REMOTE
    ELSE IF prior = None THEN UPDATED
    ELSE IF prior = R THEN NO_REMOTE_CHANGE
    ELSE IF prior = L THEN UPDATED
    ELSE LOCAL_CHANGE_REMOTE_CHANGE

\* What attempt_update was given, when it has just returned (pc = "apply").
GivenPrior == name2hash[Current]
GivenStaged ==
    IF latest_download = None THEN None ELSE cachedir[Get(latest_download)]
GivenLocal == basedir[Current]

\* ------------------------------------------------------------------ C1
\* C1: whenever attempt_update returns, its return code is the one the
\* precedence order gives for (prior digest, staged digest, local digest):
\* in the running update and in every finished update of the call.
Thm_C1_Precedence ==
    /\ pc = "apply" =>
          decision[1] = Classify(GivenPrior, DigestOf(GivenStaged),
                                 DigestOf(GivenLocal))
    /\ \A k \in 1..Len(vals) :
          vals[k][1] = Classify(log[k].orig_hash, DigestOf(log[k].staged),
                                DigestOf(log[k].localfile))

\* C1 witness: prior = staged digest with an edited local file gives
\* NO_REMOTE_CHANGE.
Wit_C1_UnchangedRemoteEditedLocal ==
    /\ pc = "apply"
    /\ GivenPrior # None
    /\ GivenPrior = DigestOf(GivenStaged)
    /\ GivenLocal # None
    /\ DigestOf(GivenLocal) # GivenPrior
    /\ decision[1] = NO_REMOTE_CHANGE

\* ------------------------------------------------------------------ C2
\* The local file of an entry was edited: it exists and its digest is not
\* the prior digest.
Edited(prior, localfile) ==
    prior # None /\ localfile # None /\ DigestOf(localfile) # prior

\* C2: an update given a present prior digest and a local file of another
\* digest leaves the local file's content as it was; update changes the
\* working directory only when it returns UPDATED, and then only the
\* entry's file; over a whole call no edited file of the dictionary changes.
Thm_C2_NoSilentOverwrite ==
    /\ JustUpdated =>
          /\ Edited(LastEntry.orig_hash, LastEntry.localfile) =>
                basedir[LastEntry.name] = LastEntry.localfile
          /\ basedir # pre.basedir => LastVal[1] = UPDATED
          /\ \A g \in Names \ {LastEntry.name} : basedir[g] = pre.basedir[g]
    /\ pc \in {"fetch", "update", "apply", "collect", "done"} =>
          \A f \in DOMAIN name2hash :
             Edited(name2hash[f], called.basedir[f]) =>
                basedir[f] = called.basedir[f]

\* C2 witness: the remote changed and the local file was edited; the
\* update is over and the edit is still there.
Wit_C2_EditKept ==
    /\ JustUpdated
    /\ Edited(LastEntry.orig_hash, LastEntry.localfile)
    /\ LastEntry.staged # None
    /\ DigestOf(LastEntry.staged) # LastEntry.orig_hash
    /\ LastEntry.staged # LastEntry.localfile
    /\ basedir[LastEntry.name] = LastEntry.localfile

\* ------------------------------------------------------------------ C3
\* C3: when update returns UPDATED, it was the first sync or the remote had
\* changed and the local file had not; the local file's digest is then the
\* returned hash, which is the digest of the staged content, and the
\* staged file is gone.
Thm_C3_UpdatedPromotes ==
    (JustUpdated /\ LastVal[1] = UPDATED) =>
       /\ LastEntry.staged # None
       /\ \/ LastEntry.orig_hash = None
          \/ /\ LastEntry.orig_hash # DigestOf(LastEntry.staged)
             /\ LastEntry.orig_hash = DigestOf(LastEntry.localfile)
       /\ LastVal[2] = DigestOf(LastEntry.staged)
       /\ DigestOf(basedir[LastEntry.name]) = LastVal[2]
       /\ cachedir[LastEntry.name] = None

\* C3 witness: an unedited local file was replaced by a changed remote.
Wit_C3_Replaced ==
    /\ JustUpdated
    /\ LastVal[1] = UPDATED
    /\ LastEntry.orig_hash # None
    /\ LastEntry.localfile # None
    /\ basedir[LastEntry.name] # LastEntry.localfile

\* ------------------------------------------------------------------ C4
\* C4: when the prior digest is present and is the staged file's digest,
\* update returns NO_REMOTE_CHANGE and no hash, the staged file is gone and
\* the working directory is as it was, whatever the local file.
Thm_C4_NoRemoteChange ==
    (/\ JustUpdated
     /\ LastEntry.orig_hash # None
     /\ LastEntry.orig_hash = DigestOf(LastEntry.staged)) =>
       /\ LastVal = <<NO_REMOTE_CHANGE, None>>
       /\ cachedir[LastEntry.name] = None
       /\ basedir = pre.basedir

\* C4 witness: the case with an edited local file.
Wit_C4_EditedLocal ==
    /\ JustUpdated
    /\ Edited(LastEntry.orig_hash, LastEntry.localfile)
    /\ LastEntry.orig_hash = DigestOf(LastEntry.staged)
    /\ LastVal[1] = NO_REMOTE_CHANGE

\* ------------------------------------------------------------------ C5
\* C5: when update returns LOCAL_CHANGE_REMOTE_CHANGE, HAS_LOCAL_NO_REMOTE
\* or NO_LOCAL_NO_REMOTE, both directories are as they were when it was
\* entered (a staged file stays in the cache) and no hash is returned.
Thm_C5_NoMutation ==
    (/\ JustUpdated
     /\ LastVal[1] \in {LOCAL_CHANGE_REMOTE_CHANGE, HAS_LOCAL_NO_REMOTE,
                        NO_LOCAL_NO_REMOTE}) =>
       /\ basedir = pre.basedir
       /\ cachedir = pre.cachedir
       /\ LastVal[2] = None
       /\ LastVal[1] = LOCAL_CHANGE_REMOTE_CHANGE =>
             /\ LastEntry.staged # None
             /\ cachedir[LastEntry.name] = LastEntry.staged

\* C5 witness: LOCAL_CHANGE_REMOTE_CHANGE with the staged file in place.
Wit_C5_StagedLeft ==
    /\ JustUpdated
    /\ LastVal[1] = LOCAL_CHANGE_REMOTE_CHANGE
    /\ cachedir[LastEntry.name] # None

\* ------------------------------------------------------------------ C6
\* A result has a hash if and only if its code is UPDATED.
HashIffUpdated(v) == v[1] \in RetCodes /\ (v[2] # None <=> v[1] = UPDATED)

\* C6: the five codes are five values; attempt_update and update return one
\* of them, with a hash if and only if it is UPDATED, and that hash is the
\* digest of the staged download.
Thm_C6_HashIffUpdated ==
    /\ Cardinality(RetCodes) = 5
    /\ pc = "apply" =>
          /\ HashIffUpdated(decision)
          /\ decision[2] # None => decision[2] = DigestOf(GivenStaged)
    /\ \A k \in 1..Len(vals) :
          /\ HashIffUpdated(vals[k])
          /\ vals[k][2] # None => vals[k][2] = DigestOf(log[k].staged)

\* C6 witness: a call with an UPDATED and a result without hash.
Wit_C6_BothKinds ==
    /\ Len(vals) = 2
    /\ vals[1][1] = UPDATED
    /\ vals[1][2] # None
    /\ vals[2][1] = NO_REMOTE_CHANGE
    /\ vals[2][2] = None

\* ------------------------------------------------------------------ C7
\* attempt_update is over: it returned, or hash_of_file raised in it.
AttemptOver ==
    \/ pc = "apply"
    \/ pc = "raised" /\ exc[1] = "FileNotFoundError"

\* C7: when attempt_update is over both directories are as they were when
\* update was entered, and it hashed the staged file if there is one and,
\* only if the prior digest is present and not the staged digest, the local
\* file.
Thm_C7_AttemptReadsOnly ==
    AttemptOver =>
       /\ basedir = pre.basedir
       /\ cachedir = pre.cachedir
       /\ reads =
            IF latest_download = None
            THEN {}
            ELSE {<<"cachedir", Get(latest_download)>>}
                 \cup IF /\ GivenPrior # None
                         /\ GivenPrior # DigestOf(GivenStaged)
                      THEN {<<"basedir", Current>>}
                      ELSE {}

\* C7 witness: attempt_update returned NO_REMOTE_CHANGE: the staged file is
\* still there and the local file was not read.
Wit_C7_LocalNotRead ==
    /\ pc = "apply"
    /\ decision[1] = NO_REMOTE_CHANGE
    /\ cachedir[Current] # None
    /\ reads = {<<"cachedir", Current>>}

\* ------------------------------------------------------------------ C8
\* C8: when the call has returned, retcodes is as long as name_url and its
\* i-th code is the classification of the i-th entry: of that entry's name,
\* its hash in name2hash, its download and its local file.
Thm_C8_Aligned ==
    pc = "done" =>
       /\ Len(retcodes) = Len(name_url)
       /\ \A i \in 1..Len(name_url) :
             /\ log[i].name = name_url[i]
             /\ log[i].orig_hash = name2hash[name_url[i]]
             /\ retcodes[i] = Classify(log[i].orig_hash,
                                       DigestOf(log[i].staged),
                                       DigestOf(log[i].localfile))

\* C8 witness: a returned call of two entries with two different codes.
Wit_C8_Mixed ==
    /\ pc = "done"
    /\ Len(name_url) = 2
    /\ name_url[1] # name_url[2]
    /\ retcodes[1] # retcodes[2]

\* ------------------------------------------------------------------ C9
\* C9: when the call has returned, the keys of name2hash_updates are the
\* names with an UPDATED code in retcodes, and the value of a key is the
\* digest of the content now in that name's local file.
Thm_C9_UpdatesIffUpdated ==
    pc = "done" =>
       /\ DOMAIN name2hash_updates =
             {name_url[i] : i \in {j \in 1..Len(name_url) :
                                      retcodes[j] = UPDATED}}
       /\ \A f \in DOMAIN name2hash_updates :
             Some(name2hash_updates[f]) = DigestOf(basedir[f])

\* C9 witness: the first entry was not updated and the second was.
Wit_C9_SecondOnly ==
    /\ pc = "done"
    /\ Len(name_url) = 2
    /\ retcodes[1] # UPDATED
    /\ retcodes[2] = UPDATED
    /\ DOMAIN name2hash_updates = {name_url[2]}

\* ----------------------------------------------------------------- C10
\* The call raised ValueError.
RaisedValueError == pc = "raised" /\ exc[1] = "ValueError"

\* C10: a call whose list and dictionary differ in length does not get
\* past the check: every call that runs on has equal lengths, and when
\* ValueError is raised the two counts it names differ, download has not
\* been called and both directories are as they were at the call.
Thm_C10_LengthMismatch ==
    /\ (pc # "idle" /\ ~RaisedValueError) =>
          Len(name_url) = Cardinality(DOMAIN name2hash)
    /\ RaisedValueError =>
          /\ exc[2] # exc[3]
          /\ fetches = <<>>
          /\ vals = <<>>
          /\ basedir = called.basedir
          /\ cachedir = called.cachedir

\* C10 witness: ValueError with files in both directories.
Wit_C10_Raised ==
    /\ RaisedValueError
    /\ \E f \in Names : basedir[f] # None
    /\ \E f \in Names : cachedir[f] # None

\* ----------------------------------------------------------------- C11
\* The entries and the dictionary are in 1:1 correspondence by name.
OneToOne(name_url_, name2hash_) ==
    /\ Len(name_url_) = Cardinality(DOMAIN name2hash_)
    /\ {name_url_[i] : i \in 1..Len(name_url_)} = DOMAIN name2hash_

\* C11 (the claim, which the code does not keep): a call whose entries and
\* dictionary are not in 1:1 correspondence by name does not return and
\* fetches nothing and changes no file.
Cex_C11_NamesChecked ==
    (pc # "idle" /\ ~RaisedValueError /\ ~OneToOne(name_url, name2hash)) =>
       /\ pc # "done"
       /\ fetches = <<>>
       /\ basedir = called.basedir
       /\ cachedir = called.cachedir

\* ----------------------------------------------------------------- C15
\* The last entry of name f in the list.
LastOf(f) ==
    CHOOSE i \in 1..Len(name_url) :
       /\ name_url[i] = f
       /\ \A j \in 1..Len(name_url) : name_url[j] = f => j <= i

\* C15 (the claim as stated): after a returned call no file is left at
\* cachedir/name for any entry whose fetch succeeded.
Cex_C15_NoStagedLeft ==
    pc = "done" =>
       \A i \in 1..Len(name_url) :
          log[i].staged # None => cachedir[name_url[i]] = None

\* C15 (amended): after a returned call, for a name whose fetch succeeded,
\* cachedir/name holds no file if the name's (last) entry was UPDATED or
\* NO_REMOTE_CHANGE, and holds the staged download if it was
\* LOCAL_CHANGE_REMOTE_CHANGE.
Thm_C15_StagedLeftOnlyOnConflict ==
    pc = "done" =>
       \A f \in {name_url[i] : i \in 1..Len(name_url)} :
          LET k == LastOf(f) IN
          log[k].staged # None =>
             /\ retcodes[k] \in {UPDATED, NO_REMOTE_CHANGE,
                                 LOCAL_CHANGE_REMOTE_CHANGE}
             /\ retcodes[k] \in {UPDATED, NO_REMOTE_CHANGE} =>
                   cachedir[f] = None
             /\ retcodes[k] = LOCAL_CHANGE_REMOTE_CHANGE =>
                   cachedir[f] = log[k].staged

\* C15 witness: a returned call with one download promoted and one left
\* in the cache.
Wit_C15_OneLeftOneGone ==
    /\ pc = "done"
    /\ Len(name_url) = 2
    /\ retcodes[1] = LOCAL_CHANGE_REMOTE_CHANGE
    /\ cachedir[name_url[1]] # None
    /\ retcodes[2] = UPDATED
    /\ cachedir[name_url[2]] = None

\* ----------------------------------------------------------------- C16
\* download has just returned.
JustDownloaded == pc = "update"

\* C16 (the claim as stated): when download returns None there is no file
\* at its destination.
Cex_C16_NoFileOnFailure ==
    (JustDownloaded /\ latest_download = None) => cachedir[Current] = None

\* C16 (amended): when download returns None it has written nothing: the
\* cache is as it was before the call, so its destination holds no file or
\* the file an earlier run left there; when it returns the path, the file
\* there is the whole resource and no other cache file has changed.
Thm_C16_DownloadWritesOnSuccess ==
    JustDownloaded =>
       /\ latest_download = None =>
             /\ remote[Current] = None
             /\ cachedir = prefetch
       /\ latest_download # None =>
             /\ latest_download = Some(Current)
             /\ remote[Current] # None
             /\ cachedir[Current] = remote[Current]
             /\ \A g \in Names \ {Current} : cachedir[g] = prefetch[g]

\* C16 witness: download returned None and an earlier run's file is at
\* the destination.
Wit_C16_StaleFile ==
    /\ JustDownloaded
    /\ latest_download = None
    /\ cachedir[Current] # None

\* ----------------------------------------------------------------- C17
\* The call is inside update for the current entry.
InUpdate ==
    \/ pc \in {"update", "apply"}
    \/ pc = "raised" /\ exc[1] \in {"FileNotFoundError", "OSError"}

\* C17: in a call, download is called for the entries in order, once each and
\* one ahead of update at most; the k-th update is given the k-th entry's
\* name, that name's hash in name2hash and what the k-th download fetched.
Thm_C17_FetchThenUpdate ==
    (pc # "idle" /\ ~RaisedValueError) =>
       /\ Len(fetches) = Len(vals) + (IF InUpdate THEN 1 ELSE 0)
       /\ \A k \in 1..Len(fetches) : fetches[k] = name_url[k]
       /\ \A k \in 1..Len(log) :
             /\ log[k].name = name_url[k]
             /\ log[k].orig_hash = name2hash[name_url[k]]
             /\ log[k].staged = remote[name_url[k]]
       /\ pc = "apply" =>
             latest_download =
                IF remote[Current] = None THEN None ELSE Some(Current)
       /\ pc = "done" => fetches = name_url

\* C17 witness: a returned call of two names, one fetch failed, one not.
Wit_C17_TwoFetches ==
    /\ pc = "done"
    /\ Len(name_url) = 2
    /\ name_url[1] # name_url[2]
    /\ log[1].staged = None
    /\ log[2].staged # None
    /\ retcodes[2] = UPDATED

\* ----------------------------------------------------------------- C18
\* No name is listed twice.
Distinct(name_url_) ==
    \A i, j \in 1..Len(name_url_) : i # j => name_url_[i] # name_url_[j]

\* The code of name f from what f alone was when the call was made.
OwnCode(f) ==
    Classify(name2hash[f], DigestOf(remote[f]), DigestOf(called.basedir[f]))

SecondRunNoChanges ==
    \A f \in NamesOf(name_url) : lastrun[f] # None /\ lastrun[f][3]

\* C12 (the claim as stated): a run that returns after a returned run, with
\* no remote or local change between the two, has NO_REMOTE_CHANGE for
\* every entry.
Cex_C12_SecondRunAllUnchanged ==
    (pc = "done" /\ SecondRunNoChanges) =>
       \A i \in 1..Len(name_url) : retcodes[i] = NO_REMOTE_CHANGE

\* C12 (amended): in such a second run an entry that the first run
\* classified UPDATED or NO_REMOTE_CHANGE is NO_REMOTE_CHANGE, and an entry
\* the first run classified otherwise has its first code again.
Thm_C12_SecondRun ==
    (pc = "done" /\ SecondRunNoChanges) =>
       \A i \in 1..Len(name_url) :
          retcodes[i] =
             IF lastrun[name_url[i]][1] \in {UPDATED, NO_REMOTE_CHANGE}
             THEN NO_REMOTE_CHANGE
             ELSE lastrun[name_url[i]][1]

\* C12 witness: a second run of two entries, one updated by the first run
\* and one in conflict in both.
Wit_C12_SecondRun ==
    /\ pc = "done"
    /\ SecondRunNoChanges
    /\ Len(name_url) = 2
    /\ lastrun[name_url[1]][1] = UPDATED
    /\ retcodes[1] = NO_REMOTE_CHANGE
    /\ retcodes[2] = LOCAL_CHANGE_REMOTE_CHANGE

\* ----------------------------------------------------------------- C13
\* C13 (the claim, which the code does not keep): no call is ended by a
\* failed fetch; after a failed fetch the entry's update is given None and
\* its code is HAS_LOCAL_NO_REMOTE or NO_LOCAL_NO_REMOTE.
Cex_C13_FetchFailureContained ==
    /\ pc = "raised" => exc[1] # "ConnectionResetError"
    /\ (pc = "apply" /\ latest_download = None) =>
          decision[1] \in {HAS_LOCAL_NO_REMOTE, NO_LOCAL_NO_REMOTE}

\* ----------------------------------------------------------------- C14
\* C14 (the claim, which the code does not keep): when a run ends, returned
\* or raised, every name whose local file it replaced has the new digest
\* in .downloads.json, and every name with a new digest there had its local
\* file replaced.
Cex_C14_DigestIffReplaced ==
    [][(pc \in {"done", "raised"} /\ pc' = "idle") =>
         /\ \A k \in 1..Len(vals) :
               vals[k][1] = UPDATED =>
                  /\ hist' # None
                  /\ log[k].name \in DOMAIN hist'
                  /\ hist'[log[k].name] = vals[k][2]
         /\ hist' # hist =>
               \A f \in DOMAIN hist' :
                  hist'[f] # LoadedHist[f] =>
                     \E k \in 1..Len(vals) :
                        /\ log[k].name = f
                        /\ vals[k][1] = UPDATED
                        /\ DigestOf(basedir[f]) = hist'[f]]_vars

\* ----------------------------------------------------------------- C19
\* C19: the keys of name2hash_updates are names of entries; once there is a
\* .downloads.json its keys are the names of .name_url.json, as many as
\* there are entries, so the length check of the next run passes.
Thm_C19_KeysPreserved ==
    /\ pc = "done" => DOMAIN name2hash_updates \subseteq NamesOf(name_url)
    /\ hist # None =>
          /\ DOMAIN hist = NamesOf(cfg)
          /\ ~length_mismatch(cfg, hist)

\* C19 witness: a later run of two entries is past the length check with a
\* hash on record.
Wit_C19_NextRunPasses ==
    /\ hist # None
    /\ pc = "fetch"
    /\ Len(name_url) = 2
    /\ \E f \in DOMAIN hist : hist[f] # None
    /\ \E f \in DOMAIN hist : hist[f] = None

\* ----------------------------------------------------------------- C20
\* The last run classified f LOCAL_CHANGE_REMOTE_CHANGE and the site
\* serves the same for f since.
InConflict(f) ==
    lastrun[f] # None /\ lastrun[f][1] = LOCAL_CHANGE_REMOTE_CHANGE

\* C20: a name classified LOCAL_CHANGE_REMOTE_CHANGE keeps the hash on
\* record; in a later run that fetches the same resource its update is
\* given that hash, and the code is UPDATED if the local file's digest is
\* that hash and LOCAL_CHANGE_REMOTE_CHANGE otherwise, also when the local
\* file has the content of the resource.
Thm_C20_ConflictSticky ==
    /\ \A f \in Names :
          (pc = "idle" /\ InConflict(f)) =>
             /\ hist # None
             /\ f \in DOMAIN hist
             /\ hist[f] = lastrun[f][2]
    /\ \A k \in 1..Len(log) :
          (InConflict(log[k].name) /\ log[k].staged # None) =>
             /\ log[k].orig_hash = lastrun[log[k].name][2]
             /\ vals[k][1] =
                   IF DigestOf(log[k].localfile) = log[k].orig_hash
                   THEN UPDATED
                   ELSE LOCAL_CHANGE_REMOTE_CHANGE

\* C20 witness: in conflict again after the local file was edited, with
\* the local file holding what the site serves.
Wit_C20_SameAsRemote ==
    /\ Len(log) > 0
    /\ InConflict(LastEntry.name)
    /\ ~lastrun[LastEntry.name][3]
    /\ LastEntry.staged # None
    /\ LastEntry.localfile = LastEntry.staged
    /\ LastVal[1] = LOCAL_CHANGE_REMOTE_CHANGE

====
